---- MODULE Spec2Model ----
(***************************************************************************)
(* Model of the Cashier bookkeeping application (Mshaban73/Cashier).        *)
(*                                                                         *)
(* Time is counted in whole hours since 00:00 UTC of January 1 of year 0;  *)
(* a JavaScript Date is the integer number of hours of its instant.  A     *)
(* calendar day is numbered from the same origin, and the date key         *)
(* 'YYYY-MM-DD' of a day is that day number (keys compare like the         *)
(* strings do).  A calendar year has DaysPerYear days.  The local time     *)
(* zone is off hours ahead of UTC (daylight saving is not modelled).       *)
(*                                                                         *)
(* Money is counted in piastres (1/100 EGP), so that the 0.5 and 0.25      *)
(* denominations are integers; floating-point rounding is not modelled.    *)
(***************************************************************************)
EXTENDS Integers, Sequences, FiniteSets, TLC

VARIABLES
    off,              \* local time zone: hours ahead of UTC
    now,              \* the clock: new Date()
    transactions,     \* TreasuryPage: the 'transactions' store entry
    pendingReads,     \* FileReader reads started by handleImport, not yet loaded
    filterText,       \* TreasuryPage filter fields
    filterStartDate,
    filterEndDate,
    dailyRecords,     \* ShippingPage: the 'shippingRecords' store entry
    customers,        \* ShippingPage: the 'customers' store entry
    modalState,       \* ShippingPage: which modal is open, and on which date
    view,             \* ReceivablesModal: 'list' or 'detail'
    selectedCustomer, \* ReceivablesModal: the customer whose detail is shown
    last,             \* history: the last operation and its outcome
    addedIds,         \* history: ids of the entries addTransaction appended
    isCashCountOpen,  \* TreasuryPage: whether the cash count modal is shown
    treasuryCounts,   \* CashCountModal: counts, the count of each denomination
    localStorage,     \* the value stored under the key 'transactions'
    background,       \* the 'transactions' state of a second tab, not in focus
    focus,            \* which tab is in focus: its state is `transactions`
    caches,           \* sw.js: the CacheStorage, cache name -> (URL -> response)
    workerState,      \* sw.js: the life cycle of the service worker
    pendingPuts,      \* sw.js: cache.put calls the fetch handler has started
    online,           \* whether the network can be reached
    server            \* what the network answers for each URL

vars == <<off, now, transactions, pendingReads, filterText, filterStartDate,
          filterEndDate, dailyRecords, customers, modalState, view,
          selectedCustomer, last, addedIds, isCashCountOpen, treasuryCounts,
          localStorage, background, focus, caches, workerState, pendingPuts,
          online, server>>

treasuryVars == <<transactions, pendingReads, filterText, filterStartDate,
                  filterEndDate, addedIds, isCashCountOpen, treasuryCounts,
                  localStorage, background, focus>>
cashCountVars == <<isCashCountOpen, treasuryCounts>>
tabVars == <<background, focus>>
workerVars == <<caches, workerState, pendingPuts, online, server>>
shippingVars == <<dailyRecords, customers, modalState, view, selectedCustomer>>

-----------------------------------------------------------------------------
(* Bounds of the model *)

DaysPerYear == 3        \* days of a calendar year
MaxYear == 1            \* the clock stops in year MaxYear
MaxRand == 1            \* values Math.random() takes
MaxCustomers == 2       \* customers in the list
MaxWorksheetCustomers == 1  \* customers in the list, in the worksheet's runs
MaxCustomerTx == 2      \* customer transactions in all the lists
MaxPaymentCells == 1    \* payment cells holding a non-zero amount
MaxCashDays == 1        \* records holding cash details
MaxCounted == 1         \* denominations a cash count fills in

Offsets == {0 - 5, 0, 2}   \* UTC-5, UTC, UTC+2 (Cairo)

\* A JavaScript value that may be null, undefined or NaN is a sequence of at
\* most one element: <<>> is the missing value, <<x>> the value x.
NULL == <<>>
NaN == <<>>
Some(x) == <<x>>

-----------------------------------------------------------------------------
(* Generic helpers *)

RECURSIVE SumSeq(_)
SumSeq(s) == IF s = <<>> THEN 0 ELSE Head(s) + SumSeq(Tail(s))

Range(s) == {s[i] : i \in DOMAIN s}

-----------------------------------------------------------------------------
(* Constants of the program *)

SHIPPING_DENOMINATIONS == <<20000, 10000, 5000, 2000, 1000, 500, 100, 50>>

PAYMENT_FIELDS ==
    <<"fawry", "instapay", "cards", "aman", "bedayti", "cash", "masary">>

DEFAULT_SHIPPING_RECORD ==
    [payments |-> [f \in Range(PAYMENT_FIELDS) |-> 0],
     cashDetails |-> <<>>,
     receivables |-> 0]

-----------------------------------------------------------------------------
(* Dates *)

\* new Date(year, 0, 1) and date.setDate(date.getDate() + n): local midnight
\* of the calendar day numbered d.
LocalMidnight(d) == d * 24 - off

\* The local calendar day an instant falls on (date.getDate() and friends).
LocalDay(t) == (t + off) \div 24

\* date.getFullYear(): the local year of an instant.
getFullYear(t) == LocalDay(t) \div DaysPerYear

\* date.setHours(0, 0, 0, 0): local midnight of the instant's local day.
SetHoursMidnight(t) == LocalMidnight(LocalDay(t))

\* new Date('YYYY-MM-DD'): a date-only string is parsed as UTC midnight.
ParseDateKey(k) == k * 24

\* toYyyyMmDd: the UTC date of the instant (toISOString().split('T')[0]).
toYyyyMmDd(t) == t \div 24

\* getDaysInYear: the local midnights of the days of the current local year.
getDaysInYear ==
    LET year == getFullYear(now)
        first == LocalMidnight(year * DaysPerYear)
        RECURSIVE Days(_)
        Days(date) == IF getFullYear(date) = year
                      THEN <<date>> \o Days(LocalMidnight(LocalDay(date) + 1))
                      ELSE <<>>
    IN Days(first)

-----------------------------------------------------------------------------
(* Strings and numbers of the forms *)

\* A text (a name, a description, a filter) is a sequence of characters.
RECURSIVE trimStart(_)
trimStart(s) == IF s # <<>> /\ Head(s) = " " THEN trimStart(Tail(s)) ELSE s

RECURSIVE trimEnd(_)
trimEnd(s) ==
    IF s # <<>> /\ s[Len(s)] = " " THEN trimEnd(SubSeq(s, 1, Len(s) - 1)) ELSE s

\* String.prototype.trim
trim(s) == trimEnd(trimStart(s))

\* parseFloat on the values the number inputs of the model hold.
parseFloat(s) ==
    CASE s = "120" -> Some(12000)
      [] s = "150" -> Some(15000)
      [] s = "500" -> Some(50000)
      [] s = "300" -> Some(30000)
      [] s = "1000" -> Some(100000)
      [] s = "-200" -> Some(0 - 20000)
      [] s = "0" -> Some(0)
      [] OTHER -> NaN

isNaN(x) == x = NaN

\* x || 0 for a number x.
OrZero(x) == IF x = NaN \/ x = Some(0) THEN 0 ELSE x[1]

\* The value of an <input type="number"> in which a text was typed: the text
\* when it is a number, and '' otherwise.
NumberInput(text) == IF isNaN(parseFloat(text)) THEN "" ELSE text

-----------------------------------------------------------------------------
(* Customer ledger *)

\* Mutant: the balance is the amount of the last transaction only.
calculateCustomerBalance_lastOnly(customer) ==
    IF "transactions" \notin DOMAIN customer \/ customer.transactions = <<>>
    THEN 0
    ELSE customer.transactions[Len(customer.transactions)].amount

calculateCustomerBalance(customer) ==
    IF "transactions" \notin DOMAIN customer THEN 0
    ELSE SumSeq([i \in DOMAIN customer.transactions |->
                    customer.transactions[i].amount])

\* newCustomers.reduce((sum, c) => sum + calculateCustomerBalance(c), 0)
totalReceivables(cs) ==
    SumSeq([i \in DOMAIN cs |-> calculateCustomerBalance(cs[i])])

-----------------------------------------------------------------------------
(* Shipping page *)

ModalClosed == [type |-> "null", date |-> NULL]

\* The history value of an operation no property refers to.
Other == [op |-> "other"]

\* dailyRecords[date] || { ...DEFAULT_SHIPPING_RECORD, date }
RecordOrDefault(records, date) ==
    IF date \in DOMAIN records THEN records[date]
    ELSE [date |-> date] @@ DEFAULT_SHIPPING_RECORD

\* { ...prev, [date]: record }
WithRecord(records, date, record) ==
    [k \in DOMAIN records \cup {date} |->
        IF k = date THEN record ELSE records[k]]

\* The rows of the table: the date key of each day of the year.
RowKeys == [i \in DOMAIN getDaysInYear |-> toYyyyMmDd(getDaysInYear[i])]

\* Mutant: the grand total leaves the receivables out.
getRecordCalculations_noReceivables(date) ==
    LET record == RecordOrDefault(dailyRecords, date)
        totalBalances ==
            SumSeq([i \in DOMAIN PAYMENT_FIELDS |->
                       record.payments[PAYMENT_FIELDS[i]]])
        cashTotal ==
            SumSeq([i \in DOMAIN record.cashDetails |->
                       record.cashDetails[i].value * record.cashDetails[i].count])
    IN [totalBalances |-> totalBalances, cashTotal |-> cashTotal,
        grandTotal |-> totalBalances + cashTotal]

getRecordCalculations(date) ==
    LET record == RecordOrDefault(dailyRecords, date)
        totalBalances ==
            SumSeq([i \in DOMAIN PAYMENT_FIELDS |->
                       record.payments[PAYMENT_FIELDS[i]]])
        cashTotal ==
            SumSeq([i \in DOMAIN record.cashDetails |->
                       record.cashDetails[i].value * record.cashDetails[i].count])
        grandTotal == totalBalances + cashTotal + record.receivables
    IN [totalBalances |-> totalBalances, cashTotal |-> cashTotal,
        grandTotal |-> grandTotal]

\* Mutant: the previous day is taken to be the day itself.
prevDateStr_sameDay(day) == toYyyyMmDd(day)

\* prevDate.setDate(prevDate.getDate() - 1); toYyyyMmDd(prevDate)
prevDateStr(day) == toYyyyMmDd(LocalMidnight(LocalDay(day) - 1))

\* The 'difference' cell of the row of a day.
difference(day) ==
    getRecordCalculations(toYyyyMmDd(day)).grandTotal
        - getRecordCalculations(prevDateStr(day)).grandTotal

-----------------------------------------------------------------------------
(* Treasury page *)

INCOME == "income"      \* TransactionType.INCOME
EXPENSE == "expense"    \* TransactionType.EXPENSE

\* String.prototype.toLowerCase, on the characters of the model.
toLowerCase(s) ==
    [i \in DOMAIN s |-> CASE s[i] = "A" -> "a"
                          [] s[i] = "B" -> "b"
                          [] OTHER -> s[i]]

\* String.prototype.includes
includes(s, part) ==
    \E i \in 0..Len(s) - Len(part) : SubSeq(s, i + 1, i + Len(part)) = part

\* date.setHours(23, 59, 59, 999): the last instant of the local day; instants
\* being whole hours, its last whole hour.
SetHoursEndOfDay(t) == LocalMidnight(LocalDay(t) + 1) - 1

\* Array.prototype.sort((a, b) => new Date(a.date) - new Date(b.date)): a
\* stable sort by date ascending.
RECURSIVE sortByDate(_)
sortByDate(ts) ==
    IF ts = <<>> THEN <<>>
    ELSE LET sorted == sortByDate(SubSeq(ts, 1, Len(ts) - 1))
             t == ts[Len(ts)]
             k == Cardinality({i \in DOMAIN sorted : sorted[i].date <= t.date})
         IN SubSeq(sorted, 1, k) \o <<t>> \o SubSeq(sorted, k + 1, Len(sorted))

\* transactionsWithBalance: each entry with the running balance after it.
RECURSIVE withBalance(_)
withBalance(sorted) ==
    IF sorted = <<>> THEN <<>>
    ELSE LET before == withBalance(SubSeq(sorted, 1, Len(sorted) - 1))
             t == sorted[Len(sorted)]
             runningBalance == IF before = <<>> THEN 0
                               ELSE before[Len(before)].balance
         IN Append(before,
                   [t EXCEPT !.balance = IF t.type = INCOME
                                         THEN runningBalance + t.amount
                                         ELSE runningBalance - t.amount])

Reverse(s) == [i \in DOMAIN s |-> s[Len(s) + 1 - i]]

\* The filter of the table, over the entries with their balances.
filtered(balanced, text, startDate, endDate) ==
    LET matches(t) ==
            LET matchesText == includes(toLowerCase(t.description),
                                        toLowerCase(text))
                start == IF startDate = NULL THEN NULL
                         ELSE Some(SetHoursMidnight(ParseDateKey(startDate[1])))
                end == IF endDate = NULL THEN NULL
                       ELSE Some(SetHoursEndOfDay(ParseDateKey(endDate[1])))
                matchesDate == /\ (start = NULL \/ t.date >= start[1])
                               /\ (end = NULL \/ t.date <= end[1])
            IN IF startDate = NULL /\ endDate = NULL THEN matchesText
               ELSE matchesText /\ matchesDate
    IN Reverse(SelectSeq(balanced, matches))

\* Mutant: the totals are taken over the filtered entries.
Memo_filteredTotals(txs, text, startDate, endDate) ==
    LET amounts(ts) == SumSeq([i \in DOMAIN ts |-> ts[i].amount])
        balanced == withBalance(sortByDate([i \in DOMAIN txs |->
                                   txs[i] @@ [balance |-> 0]]))
        shown == filtered(balanced, text, startDate, endDate)
        income == amounts(SelectSeq(shown, LAMBDA t : t.type = INCOME))
        expense == amounts(SelectSeq(shown, LAMBDA t : t.type = EXPENSE))
    IN [totalIncome |-> income, totalExpense |-> expense,
        currentBalance |-> income - expense, filteredTransactions |-> shown]

\* The useMemo of TreasuryPage.
Memo(txs, text, startDate, endDate) ==
    LET amounts(ts) == SumSeq([i \in DOMAIN ts |-> ts[i].amount])
        sortedTransactions == sortByDate([i \in DOMAIN txs |->
                                             txs[i] @@ [balance |-> 0]])
        transactionsWithBalance == withBalance(sortedTransactions)
        income == amounts(SelectSeq(txs, LAMBDA t : t.type = INCOME))
        expense == amounts(SelectSeq(txs, LAMBDA t : t.type = EXPENSE))
    IN [totalIncome |-> income, totalExpense |-> expense,
        currentBalance |-> income - expense,
        filteredTransactions |->
            filtered(transactionsWithBalance, text, startDate, endDate)]

\* Mutant: the new entry is added to the stored value.
handleSubmit_mergeStored(amount, description, type, r, dt) ==
    /\ IF amount = "" \/ description = <<>>
       THEN /\ last' = Other
            /\ UNCHANGED <<transactions, addedIds, now, localStorage>>
       ELSE LET newTransaction ==
                    [id |-> <<now, r>>, date |-> now,
                     description |-> description,
                     amount |-> parseFloat(amount)[1], type |-> type]
            IN /\ transactions' = Append(transactions, newTransaction)
               /\ localStorage' = Append(localStorage, newTransaction)
               /\ addedIds' = addedIds \cup {newTransaction.id}
               /\ now' = now + dt
               /\ last' = [op |-> "add", id |-> newTransaction.id]
    /\ UNCHANGED <<off, pendingReads, filterText, filterStartDate, filterEndDate>>
    /\ UNCHANGED shippingVars
    /\ UNCHANGED workerVars
    /\ UNCHANGED cashCountVars
    /\ UNCHANGED tabVars

\* Mutant: the description is not looked at.
handleSubmit_anyDescription(amount, description, type, r, dt) ==
    /\ IF amount = ""
       THEN /\ last' = Other
            /\ UNCHANGED <<transactions, addedIds, now, localStorage>>
       ELSE LET newTransaction ==
                    [id |-> <<now, r>>, date |-> now,
                     description |-> description,
                     amount |-> parseFloat(amount)[1], type |-> type]
            IN /\ transactions' = Append(transactions, newTransaction)
               /\ localStorage' = transactions'
               /\ addedIds' = addedIds \cup {newTransaction.id}
               /\ now' = now + dt
               /\ last' = [op |-> "add", id |-> newTransaction.id]
    /\ UNCHANGED <<off, pendingReads, filterText, filterStartDate, filterEndDate>>
    /\ UNCHANGED shippingVars
    /\ UNCHANGED workerVars
    /\ UNCHANGED cashCountVars
    /\ UNCHANGED tabVars

\* TransactionForm.handleSubmit, which calls TreasuryPage.addTransaction; r is
\* the value of Math.random(), dt the time that passes before the next event.
handleSubmit(amount, description, type, r, dt) ==
    /\ IF amount = "" \/ description = <<>>
       THEN /\ last' = Other
            /\ UNCHANGED <<transactions, addedIds, now, localStorage>>
       ELSE LET newTransaction ==
                    [id |-> <<now, r>>, date |-> now,
                     description |-> description,
                     amount |-> parseFloat(amount)[1], type |-> type]
            IN /\ transactions' = Append(transactions, newTransaction)
               /\ localStorage' = transactions'
               /\ addedIds' = addedIds \cup {newTransaction.id}
               /\ now' = now + dt
               /\ last' = [op |-> "add", id |-> newTransaction.id]
    /\ UNCHANGED <<off, pendingReads, filterText, filterStartDate, filterEndDate>>
    /\ UNCHANGED shippingVars
    /\ UNCHANGED workerVars
    /\ UNCHANGED cashCountVars
    /\ UNCHANGED tabVars

setFilterText(text) ==
    /\ filterText' = text
    /\ last' = Other
    /\ UNCHANGED <<off, now, transactions, pendingReads, filterStartDate,
                   filterEndDate, addedIds>>
    /\ UNCHANGED shippingVars
    /\ UNCHANGED workerVars
    /\ UNCHANGED <<isCashCountOpen, treasuryCounts, localStorage>>
    /\ UNCHANGED tabVars

setFilterStartDate(date) ==
    /\ filterStartDate' = date
    /\ last' = Other
    /\ UNCHANGED <<off, now, transactions, pendingReads, filterText,
                   filterEndDate, addedIds>>
    /\ UNCHANGED shippingVars
    /\ UNCHANGED workerVars
    /\ UNCHANGED <<isCashCountOpen, treasuryCounts, localStorage>>
    /\ UNCHANGED tabVars

setFilterEndDate(date) ==
    /\ filterEndDate' = date
    /\ last' = Other
    /\ UNCHANGED <<off, now, transactions, pendingReads, filterText,
                   filterStartDate, addedIds>>
    /\ UNCHANGED shippingVars
    /\ UNCHANGED workerVars
    /\ UNCHANGED <<isCashCountOpen, treasuryCounts, localStorage>>
    /\ UNCHANGED tabVars

\* A backup file is [json |-> whether its text parses, kind |-> the kind of
\* importedData.transactions, items |-> its entries]: the kind is "undefined"
\* when the key is missing, "object" for a value that is no array, and "array".
\* An entry is a record of the fields it has.
FIELDS == {"id", "date", "description", "amount", "type"}

\* t.id && t.date && t.description && t.amount && t.type
truthy(t) ==
    /\ FIELDS \subseteq DOMAIN t
    /\ t.id # <<>>
    /\ t.description # <<>>
    /\ t.amount # 0
    /\ t.type # ""

\* Mutant: every entry of the two lists is kept.
uniqueById_keepAll(combined) == combined

\* Mutant: the first entry of each id is kept.
uniqueById_firstWins(combined) ==
    LET firsts == SelectSeq([i \in DOMAIN combined |-> i],
                     LAMBDA i : \A j \in 1..i - 1 : combined[j].id # combined[i].id)
    IN [n \in DOMAIN firsts |-> combined[firsts[n]]]

\* Array.from(new Map(combined.map(t => [t.id, t])).values()): one entry per
\* id, in the order in which the ids first occur, each the last with its id.
uniqueById(combined) ==
    LET firsts == SelectSeq([i \in DOMAIN combined |-> i],
                     LAMBDA i : \A j \in 1..i - 1 : combined[j].id # combined[i].id)
        lastOf(id) == CHOOSE i \in DOMAIN combined :
                          /\ combined[i].id = id
                          /\ \A j \in i + 1..Len(combined) : combined[j].id # id
    IN [n \in DOMAIN firsts |-> combined[lastOf(combined[firsts[n]].id)]]

\* The merge of handleImport.
merge(existing, importedTransactions) ==
    sortByDate(uniqueById(existing \o importedTransactions))

\* TreasuryPage.handleImport: a file is chosen and its read is started; the
\* onload callback keeps the transactions of this render.
handleImport ==
    /\ pendingReads' = pendingReads \cup {transactions}
    /\ pendingReads' # pendingReads
    /\ last' = Other
    /\ UNCHANGED <<off, now, transactions, filterText, filterStartDate,
                   filterEndDate, addedIds>>
    /\ UNCHANGED shippingVars
    /\ UNCHANGED workerVars
    /\ UNCHANGED <<isCashCountOpen, treasuryCounts, localStorage>>
    /\ UNCHANGED tabVars

\* reader.onload of a read started with the transactions `existing`; the file
\* read is `file`, and `confirm` is the answer to window.confirm.
onload(existing, file, confirm) ==
    LET importedTransactions ==
            IF file.kind = "undefined" THEN <<>> ELSE file.items
        isArray == file.kind # "object"
    IN /\ existing \in pendingReads
       /\ pendingReads' = pendingReads \ {existing}
       /\ IF file.json /\ isArray
             /\ \A i \in DOMAIN importedTransactions :
                   truthy(importedTransactions[i])
          THEN IF confirm
               THEN /\ transactions' = merge(existing, importedTransactions)
                    /\ localStorage' = transactions'
                    /\ last' = [op |-> "import", existing |-> existing,
                                file |-> file]
               ELSE /\ last' = [op |-> "importCancelled", file |-> file]
                    /\ UNCHANGED <<transactions, localStorage>>
          ELSE /\ last' = [op |-> "importRejected", file |-> file]
               /\ UNCHANGED <<transactions, localStorage>>
       /\ UNCHANGED <<off, now, filterText, filterStartDate, filterEndDate,
                      addedIds>>
       /\ UNCHANGED shippingVars
       /\ UNCHANGED workerVars
       /\ UNCHANGED cashCountVars
       /\ UNCHANGED tabVars

-----------------------------------------------------------------------------
(* Inputs of the shipping page *)

PaymentInputs == {"", "120"}               \* a payment cell (number input)
CustomerNames == {<<>>, <<" ">>, <<" ", "A", " ">>}
TxAmountInputs == {"", "500", "150"}       \* the amount field (number input)
TxDescriptions == {<<>>, <<"d">>}
CountInputs == {0 - 1, 0, 4}               \* parseInt(value) || 0 of a count

\* The counts a cash modal can hold: a count for some of the denominations.
CashCounts ==
    UNION {[S -> CountInputs] :
             S \in {T \in SUBSET Range(SHIPPING_DENOMINATIONS) :
                       Cardinality(T) <= MaxCounted}}

GenericLabel == <<"n", "e", "w">>          \* the default description

NonZeroCells(records) ==
    Cardinality({<<k, f>> \in (DOMAIN records) \X Range(PAYMENT_FIELDS) :
                    records[k].payments[f] # 0})

CashDays(records) ==
    Cardinality({k \in DOMAIN records : records[k].cashDetails # <<>>})

TxCount(cs) == SumSeq([i \in DOMAIN cs |-> Len(cs[i].transactions)])

-----------------------------------------------------------------------------
(* Operations of the shipping page *)

\* Click on the cash or receivables cell of row i.
OpenModal(type, i) ==
    /\ modalState.type = "null"
    /\ i \in DOMAIN RowKeys
    /\ modalState' = [type |-> type, date |-> Some(RowKeys[i])]
    /\ view' = "list"
    /\ selectedCustomer' = NULL
    /\ last' = Other
    /\ UNCHANGED <<off, now, dailyRecords, customers>>
    /\ UNCHANGED treasuryVars
    /\ UNCHANGED workerVars

\* onClose: the modal is unmounted, and its own state is dropped with it.
CloseModal ==
    /\ modalState.type # "null"
    /\ modalState' = ModalClosed
    /\ view' = "list"
    /\ selectedCustomer' = NULL
    /\ last' = Other
    /\ UNCHANGED <<off, now, dailyRecords, customers>>
    /\ UNCHANGED treasuryVars
    /\ UNCHANGED workerVars

\* Mutant: the value is added to the channel.
handlePaymentChange_additive(date, field, value) ==
    LET numericValue == OrZero(parseFloat(value))
        currentRecord == RecordOrDefault(dailyRecords, date)
        updatedPayments == [currentRecord.payments EXCEPT ![field] = @ + numericValue]
        updated == WithRecord(dailyRecords, date,
                              [currentRecord EXCEPT !.payments = updatedPayments])
    IN /\ modalState.type = "null"
       /\ dailyRecords' = updated
       /\ last' = Other
       /\ UNCHANGED <<off, now, customers, modalState, view, selectedCustomer>>
       /\ UNCHANGED treasuryVars
       /\ UNCHANGED workerVars

handlePaymentChange(date, field, value) ==
    LET numericValue == OrZero(parseFloat(value))
        currentRecord == RecordOrDefault(dailyRecords, date)
        updatedPayments == [currentRecord.payments EXCEPT ![field] = numericValue]
        updated == WithRecord(dailyRecords, date,
                              [currentRecord EXCEPT !.payments = updatedPayments])
    IN /\ modalState.type = "null"
       /\ dailyRecords' = updated
       /\ last' = Other
       /\ UNCHANGED <<off, now, customers, modalState, view, selectedCustomer>>
       /\ UNCHANGED treasuryVars
       /\ UNCHANGED workerVars

\* Mutant: the entries saved before are kept.
handleSave_keepOld(counts) ==
    LET all == [i \in DOMAIN SHIPPING_DENOMINATIONS |->
                  [value |-> SHIPPING_DENOMINATIONS[i],
                   count |-> IF SHIPPING_DENOMINATIONS[i] \in DOMAIN counts
                             THEN counts[SHIPPING_DENOMINATIONS[i]] ELSE 0]]
        cashDetails == SelectSeq(all, LAMBDA item : item.count > 0)
        date == modalState.date[1]
        currentRecord == RecordOrDefault(dailyRecords, date)
        updated == WithRecord(dailyRecords, date,
                              [currentRecord EXCEPT !.cashDetails = @ \o cashDetails])
    IN /\ modalState.type = "cash"
       /\ dailyRecords' = updated
       /\ modalState' = ModalClosed
       /\ last' = Other
       /\ UNCHANGED <<off, now, customers, view, selectedCustomer>>
       /\ UNCHANGED treasuryVars
       /\ UNCHANGED workerVars

\* ShippingCashModal.handleSave, which calls handleSaveCashDetails and onClose.
handleSave(counts) ==
    LET all == [i \in DOMAIN SHIPPING_DENOMINATIONS |->
                  [value |-> SHIPPING_DENOMINATIONS[i],
                   count |-> IF SHIPPING_DENOMINATIONS[i] \in DOMAIN counts
                             THEN counts[SHIPPING_DENOMINATIONS[i]] ELSE 0]]
        cashDetails == SelectSeq(all, LAMBDA item : item.count > 0)
        date == modalState.date[1]
        currentRecord == RecordOrDefault(dailyRecords, date)
        updated == WithRecord(dailyRecords, date,
                              [currentRecord EXCEPT !.cashDetails = cashDetails])
    IN /\ modalState.type = "cash"
       /\ dailyRecords' = updated
       /\ modalState' = ModalClosed
       /\ last' = Other
       /\ UNCHANGED <<off, now, customers, view, selectedCustomer>>
       /\ UNCHANGED treasuryVars
       /\ UNCHANGED workerVars

handleAddCustomer(newCustomerName, r) ==
    /\ modalState.type = "receivables"
    /\ view = "list"
    /\ IF trim(newCustomerName) = <<>>
       THEN /\ last' = Other
            /\ UNCHANGED <<customers, now>>
       ELSE /\ customers' = Append(customers,
                                   [id |-> <<now, r>>,
                                    name |-> trim(newCustomerName),
                                    transactions |-> <<>>])
            /\ now' = now + 1
            /\ last' = Other
    /\ UNCHANGED <<off, dailyRecords, modalState, view, selectedCustomer>>
    /\ UNCHANGED treasuryVars
    /\ UNCHANGED workerVars

handleSelectCustomer(i) ==
    /\ modalState.type = "receivables"
    /\ view = "list"
    /\ i \in DOMAIN customers
    /\ selectedCustomer' = Some(customers[i])
    /\ view' = "detail"
    /\ last' = Other
    /\ UNCHANGED <<off, now, dailyRecords, customers, modalState>>
    /\ UNCHANGED treasuryVars
    /\ UNCHANGED workerVars

\* The 'back to the list' button.
BackToList ==
    /\ modalState.type = "receivables"
    /\ view = "detail"
    /\ view' = "list"
    /\ last' = Other
    /\ UNCHANGED <<off, now, dailyRecords, customers, modalState, selectedCustomer>>
    /\ UNCHANGED treasuryVars
    /\ UNCHANGED workerVars

\* Mutant: the day of the modal is left out.
futureDates_afterOnly(currentDate) ==
    LET modalStartDate == SetHoursMidnight(ParseDateKey(currentDate))
    IN SelectSeq(getDaysInYear, LAMBDA d : d > modalStartDate)

\* The dates the propagation rewrites: the days of the year from the modal's.
futureDates(currentDate) ==
    LET modalStartDate == SetHoursMidnight(ParseDateKey(currentDate))
    IN SelectSeq(getDaysInYear, LAMBDA d : d >= modalStartDate)

\* Mutant: every rewritten record is built from the default record.
propagate_reset(prevRecords, currentDate, newTotalBalance) ==
    LET keys == {toYyyyMmDd(d) : d \in Range(futureDates(currentDate))}
    IN [k \in DOMAIN prevRecords \cup keys |->
          IF k \in keys
          THEN [([date |-> k] @@ DEFAULT_SHIPPING_RECORD) EXCEPT
                   !.receivables = newTotalBalance]
          ELSE prevRecords[k]]

\* The updater handleAddTransaction passes to setDailyRecords.
propagate(prevRecords, currentDate, newTotalBalance) ==
    LET keys == {toYyyyMmDd(d) : d \in Range(futureDates(currentDate))}
    IN [k \in DOMAIN prevRecords \cup keys |->
          IF k \in keys
          THEN [RecordOrDefault(prevRecords, k) EXCEPT
                   !.receivables = newTotalBalance]
          ELSE prevRecords[k]]

\* Mutant: the transaction is appended to every customer.
withTransaction_all(cs, selected, newTransaction) ==
    [i \in DOMAIN cs |->
        [cs[i] EXCEPT !.transactions = Append(@, newTransaction)]]

\* customers.map(c => c.id === selectedCustomer.id ? {...} : c)
withTransaction(cs, selected, newTransaction) ==
    [i \in DOMAIN cs |->
        IF cs[i].id = selected.id
        THEN [cs[i] EXCEPT !.transactions = Append(@, newTransaction)]
        ELSE cs[i]]

\* ReceivablesModal.handleAddTransaction
handleAddTransaction(description, amount, r) ==
    /\ modalState.type = "receivables"
    /\ view = "detail"
    /\ IF selectedCustomer = NULL \/ amount = "" \/ modalState.date = NULL
          \/ isNaN(parseFloat(amount))
       THEN /\ last' = Other
            /\ UNCHANGED <<customers, dailyRecords, selectedCustomer, now>>
       ELSE LET txAmount == parseFloat(amount)[1]
                currentDate == modalState.date[1]
                newTransaction ==
                    [id |-> <<now, r>>, date |-> now,
                     description |-> IF description = <<>> THEN GenericLabel
                                     ELSE description,
                     amount |-> txAmount]
                newCustomers ==
                    withTransaction(customers, selectedCustomer[1], newTransaction)
                updated == {i \in DOMAIN customers :
                               customers[i].id = selectedCustomer[1].id}
                newTotalBalance == totalReceivables(newCustomers)
            IN /\ customers' = newCustomers
               /\ dailyRecords' =
                      propagate(dailyRecords, currentDate, newTotalBalance)
               /\ selectedCustomer' =
                      IF updated = {} THEN selectedCustomer
                      ELSE Some(newCustomers[CHOOSE i \in updated :
                                                \A j \in updated : j <= i])
               /\ last' = [op |-> "custTx", date |-> currentDate,
                           amount |-> txAmount, total |-> newTotalBalance]
               /\ now' = now + 1
    /\ UNCHANGED <<off, modalState, view>>
    /\ UNCHANGED treasuryVars
    /\ UNCHANGED workerVars

\* The application is opened again in the next calendar year.
ReopenNextYear ==
    /\ now' = now + DaysPerYear * 24
    /\ modalState' = ModalClosed
    /\ view' = "list"
    /\ selectedCustomer' = NULL
    /\ last' = Other
    /\ UNCHANGED <<off, dailyRecords, customers>>
    /\ UNCHANGED treasuryVars
    /\ UNCHANGED workerVars

-----------------------------------------------------------------------------
(* Inputs of the treasury page *)

MaxTx == 2              \* entries addTransaction appends
MaxPending == 1         \* file reads in flight
MaxFileLen == 2         \* entries of a backup file

AmountInputs == {"", "1000", "300"}        \* the amount field (number input)
Kinds == {INCOME, EXPENSE}

\* The ids of the entries of the files: the id of the first entry the
\* application creates, and an id of another origin.
ImportIds == {<<12, 1>>, <<0, 7>>}

WellFormedEntries ==
    [id : ImportIds, date : {5, 20}, description : {<<"b">>}, amount : {700},
     type : {INCOME, "other"}]

Without(t, f) == [g \in DOMAIN t \ {f} |-> t[g]]

\* Entries that lack a field, or hold 0 or '' in one.
DefectiveEntries ==
    LET t == [id |-> <<0, 7>>, date |-> 5, description |-> <<"b">>,
              amount |-> 700, type |-> INCOME]
    IN {Without(t, f) : f \in FIELDS}
         \cup {[t EXCEPT !.amount = 0], [t EXCEPT !.description = <<>>]}

Arrays ==
    UNION {[1..n -> WellFormedEntries \cup DefectiveEntries] : n \in 0..MaxFileLen}

Files ==
    {[json |-> TRUE, kind |-> "array", items |-> a] : a \in Arrays}
      \cup {[json |-> TRUE, kind |-> "undefined", items |-> <<>>],
            [json |-> TRUE, kind |-> "object", items |-> <<>>],
            [json |-> FALSE, kind |-> "undefined", items |-> <<>>]}

-----------------------------------------------------------------------------
(* Specifications *)

Init ==
    /\ off \in Offsets
    /\ now = 12
    /\ transactions = <<>>
    /\ pendingReads = {}
    /\ filterText = <<>>
    /\ filterStartDate = NULL
    /\ filterEndDate = NULL
    /\ dailyRecords = <<>>
    /\ customers = <<>>
    /\ modalState = ModalClosed
    /\ view = "list"
    /\ selectedCustomer = NULL
    /\ last = [op |-> "init"]
    /\ addedIds = {}
    /\ isCashCountOpen = FALSE
    /\ treasuryCounts = <<>>
    /\ localStorage = <<>>
    /\ background = NULL
    /\ focus = "A"
    /\ caches = <<>>
    /\ workerState = "parsed"
    /\ pendingPuts = {}
    /\ online = TRUE
    /\ server = <<>>

\* The receivables modal, its customers and the propagation over the years.
NextReceivables ==
    \/ \E i \in 1..DaysPerYear : OpenModal("receivables", i)
    \/ CloseModal
    \/ /\ Len(customers) < MaxCustomers
       /\ \E n \in CustomerNames, r \in 1..MaxRand : handleAddCustomer(n, r)
    \/ \E i \in 1..MaxCustomers : handleSelectCustomer(i)
    \/ BackToList
    \/ /\ TxCount(customers) < MaxCustomerTx
       /\ \E a \in TxAmountInputs, r \in 1..MaxRand :
             handleAddTransaction(<<>>, a, r)
    \/ /\ getFullYear(now) < MaxYear
       /\ ReopenNextYear

SpecReceivables == Init /\ [][NextReceivables]_vars

\* The worksheet of one year: payments, cash details and receivables.
NextWorksheet ==
    \/ \E type \in {"cash", "receivables"}, i \in 1..DaysPerYear :
          OpenModal(type, i)
    \/ CloseModal
    \/ \E i \in 1..DaysPerYear, f \in Range(PAYMENT_FIELDS), v \in {"120"} :
          /\ NonZeroCells(dailyRecords) < MaxPaymentCells
          /\ handlePaymentChange(RowKeys[i], f, v)
    \/ /\ CashDays(dailyRecords) < MaxCashDays
       /\ \E counts \in CashCounts : handleSave(counts)
    \/ /\ Len(customers) < MaxWorksheetCustomers
       /\ \E r \in 1..MaxRand : handleAddCustomer(<<"A">>, r)
    \/ \E i \in 1..MaxWorksheetCustomers : handleSelectCustomer(i)
    \/ BackToList
    \/ /\ TxCount(customers) < MaxCustomerTx
       /\ \E a \in TxAmountInputs, r \in 1..MaxRand :
             handleAddTransaction(<<"d">>, a, r)

\* The worksheet is explored in the time zone of Cairo.
InitWorksheet == Init /\ off = 2

SpecWorksheet == InitWorksheet /\ [][NextWorksheet]_vars

-----------------------------------------------------------------------------
(* Properties of the shipping worksheet *)

\* The sum of f[x] over the elements x of a finite set.
RECURSIVE SumOver(_, _)
SumOver(S, f) ==
    IF S = {} THEN 0
    ELSE LET x == CHOOSE y \in S : TRUE IN f[x] + SumOver(S \ {x}, f)

\* The sum of the amounts of all the transactions of all the customers.
AllAmounts(cs) ==
    LET Entries == {<<i, j>> \in (DOMAIN cs) \X (1..MaxCustomerTx + 1) :
                       j \in DOMAIN cs[i].transactions}
    IN SumOver(Entries, [e \in Entries |-> cs[e[1]].transactions[e[2]].amount])

\* December 31 of the current year.
Dec31 == (getFullYear(now) + 1) * DaysPerYear - 1

\* C1: an accepted customer transaction with the modal opened on D leaves
\* every record with a date key < D unchanged, and sets receivables to the new
\* total on every record with a date key from D to December 31 of the year.
C1_PropagationIsForwardOnly ==
    [][(last'.op = "custTx" /\ now' # now) =>
         LET D == last'.date
             X == last'.total
         IN /\ \A k \in DOMAIN dailyRecords \cup DOMAIN dailyRecords' :
                  k < D => /\ k \in DOMAIN dailyRecords
                           /\ k \in DOMAIN dailyRecords'
                           /\ dailyRecords'[k] = dailyRecords[k]
            /\ \A k \in D..Dec31 :
                  /\ k \in DOMAIN dailyRecords'
                  /\ dailyRecords'[k].receivables = X]_vars

C9_DailyTotals ==
    \A i \in DOMAIN RowKeys :
        LET record == RecordOrDefault(dailyRecords, RowKeys[i])
            p == record.payments
            c == getRecordCalculations(RowKeys[i])
            countOf(v) ==
                SumOver({j \in DOMAIN record.cashDetails :
                            record.cashDetails[j].value = v},
                        [j \in DOMAIN record.cashDetails |->
                            record.cashDetails[j].count])
            worth == [v \in Range(SHIPPING_DENOMINATIONS) |-> v * countOf(v)]
        IN /\ c.totalBalances = p.fawry + p.instapay + p.cards + p.aman
                                   + p.bedayti + p.cash + p.masary
           /\ c.cashTotal = SumOver(Range(SHIPPING_DENOMINATIONS), worth)
           /\ c.grandTotal = c.totalBalances + c.cashTotal + record.receivables
           /\ difference(getDaysInYear[i]) =
                  c.grandTotal - getRecordCalculations(RowKeys[i] - 1).grandTotal

\* Payments 120, cash 80 and receivables 500 give 700; the next day's 650
\* gives a difference of -50.
C9_Witness ==
    \E i \in 1..DaysPerYear - 1 :
        /\ getRecordCalculations(RowKeys[i]) =
               [totalBalances |-> 12000, cashTotal |-> 8000, grandTotal |-> 70000]
        /\ RecordOrDefault(dailyRecords, RowKeys[i]).receivables = 50000
        /\ getRecordCalculations(RowKeys[i + 1]).grandTotal = 65000
        /\ difference(getDaysInYear[i + 1]) = 0 - 5000

\* The treasury ledger: entries are added and backup files are imported.
NextTreasury ==
    \/ /\ Cardinality(addedIds) < MaxTx
       /\ \E a \in AmountInputs, d \in {<<>>, <<"a">>}, type \in Kinds,
             r \in 1..MaxRand : handleSubmit(a, d, type, r, 1)
    \/ /\ Cardinality(pendingReads) < MaxPending
       /\ handleImport
    \/ \E existing \in pendingReads, file \in Files, confirm \in BOOLEAN :
          onload(existing, file, confirm)

InitTreasury == Init /\ off = 2

SpecTreasury == InitTreasury /\ [][NextTreasury]_vars

\* The summary and the filter of the ledger: entries are added, the filter
\* fields are edited.
NextSummary ==
    \/ /\ Cardinality(addedIds) < MaxTx
       /\ \E a \in AmountInputs, d \in {<<>>, <<"a">>, <<"A", "b">>},
             type \in Kinds, r \in 1..MaxRand : handleSubmit(a, d, type, r, 1)
    \/ \E text \in {<<>>, <<"a">>, <<"B">>} : setFilterText(text)
    \/ \E date \in {NULL, Some(0), Some(1)} : setFilterStartDate(date)
    \/ \E date \in {NULL, Some(0)} : setFilterEndDate(date)

SpecSummary == Init /\ [][NextSummary]_vars

-----------------------------------------------------------------------------
(* Properties of the treasury ledger *)

Ids(ts) == {ts[i].id : i \in DOMAIN ts}

\* The entries of the file of an import.
ImportedOf(file) == IF file.kind = "array" THEN file.items ELSE <<>>

\* C2: in a non-empty ledger the running balance of the last entry in
\* timestamp order is the current balance of the summary.
C2_LastRunningBalanceIsBalance ==
    transactions # <<>> =>
        LET m == Memo(transactions, <<>>, NULL, NULL)
        IN m.filteredTransactions[1].balance = m.currentBalance

\* C3: an entry that addTransaction appended is never removed.
C3_NeverDeleted ==
    \A id \in addedIds : \E i \in DOMAIN transactions : transactions[i].id = id

\* C4: importing a file twice gives the ledger that importing it once gives.
C4_ImportIdempotent ==
    last.op = "import" =>
        /\ merge(transactions, ImportedOf(last.file)) = transactions
        /\ merge(merge(last.existing, ImportedOf(last.file)),
                 ImportedOf(last.file))
             = merge(last.existing, ImportedOf(last.file))

C4_Witness ==
    /\ last.op = "import"
    /\ Len(last.existing) = 2
    /\ Len(last.file.items) = 2
    /\ Ids(last.existing) \cap Ids(last.file.items) # {}
    /\ Len(transactions) = 3

\* C5: a file is accepted exactly when its transactions value is an array
\* whose every entry has the five fields; otherwise it is rejected and the
\* ledger is unchanged.
C5_AllOrNothing ==
    [][(pendingReads' # pendingReads /\ pendingReads' \subseteq pendingReads) =>
         LET file == last'.file
             wellFormed ==
                 /\ file.json
                 /\ file.kind = "array"
                 /\ \A i \in DOMAIN file.items :
                       FIELDS \subseteq DOMAIN file.items[i]
         IN IF wellFormed
            THEN last'.op \in {"import", "importCancelled"}
            ELSE /\ last'.op = "importRejected"
                 /\ transactions' = transactions]_vars

C10_SummaryIsGlobal ==
    LET m == Memo(transactions, filterText, filterStartDate, filterEndDate)
        of(kind) == {i \in DOMAIN transactions : transactions[i].type = kind}
        amount == [i \in DOMAIN transactions |-> transactions[i].amount]
    IN /\ m.totalIncome = SumOver(of(INCOME), amount)
       /\ m.totalExpense = SumOver(of(EXPENSE), amount)
       /\ m.currentBalance = m.totalIncome - m.totalExpense
       /\ \A text \in {<<>>, <<"a">>, <<"B">>} :
             LET n == Memo(transactions, text, NULL, NULL)
             IN /\ n.totalIncome = m.totalIncome
                /\ n.totalExpense = m.totalExpense
                /\ n.currentBalance = m.currentBalance

\* Income 1000 and expense 300 give a balance of 700, whatever is shown.
C10_Witness ==
    LET m == Memo(transactions, filterText, filterStartDate, filterEndDate)
    IN /\ Len(transactions) = 2
       /\ Len(m.filteredTransactions) < 2
       /\ m.totalIncome = 100000
       /\ m.totalExpense = 30000
       /\ m.currentBalance = 70000

-----------------------------------------------------------------------------
(* The running balances *)

\* C11: the entries with their balances are the entries in ascending order of
\* timestamp, entries of one timestamp in the order of the collection, and the
\* balance of an entry is the sum of +amount for income and -amount for
\* expense over the entry and the entries before it.
C11_RunningBalances ==
    LET ascending == Reverse(Memo(transactions, <<>>, NULL, NULL).filteredTransactions)
        rank == [i \in DOMAIN transactions |->
                    Cardinality({j \in DOMAIN transactions :
                        \/ transactions[j].date < transactions[i].date
                        \/ /\ transactions[j].date = transactions[i].date
                           /\ j <= i})]
        signed == [i \in DOMAIN transactions |->
                      CASE transactions[i].type = INCOME -> transactions[i].amount
                        [] transactions[i].type = EXPENSE -> 0 - transactions[i].amount
                        [] OTHER -> 0]
    IN /\ Len(ascending) = Len(transactions)
       /\ \A i \in DOMAIN transactions :
             ascending[rank[i]] =
                 transactions[i] @@
                   [balance |-> SumOver({j \in DOMAIN transactions :
                                            rank[j] <= rank[i]}, signed)]

-----------------------------------------------------------------------------
(* The records of the worksheet *)

MaxRecordTx == 1        \* customer transactions next to the payments

PaymentTexts == {"", "x", "120", "150"}    \* texts typed in a payment cell
RecordFields == {"fawry", "masary"}        \* the first and the last channel

\* The counts of a cash modal over two of the denominations.
RecordCounts == UNION {[S -> CountInputs] : S \in SUBSET {20000, 50}}

\* The records of one year: payment cells are written and overwritten, cash
\* details saved and saved again, receivables propagated.
NextRecords ==
    \/ \E type \in {"cash", "receivables"}, i \in 1..DaysPerYear :
          OpenModal(type, i)
    \/ CloseModal
    \/ \E i \in 1..DaysPerYear, f \in RecordFields, text \in PaymentTexts :
          /\ \/ NonZeroCells(dailyRecords) < MaxPaymentCells
             \/ RecordOrDefault(dailyRecords, RowKeys[i]).payments[f] # 0
          /\ handlePaymentChange(RowKeys[i], f, NumberInput(text))
    \/ /\ modalState.type = "cash"
       /\ \/ CashDays(dailyRecords) < MaxCashDays
          \/ RecordOrDefault(dailyRecords, modalState.date[1]).cashDetails # <<>>
       /\ \E counts \in RecordCounts : handleSave(counts)
    \/ /\ Len(customers) < MaxWorksheetCustomers
       /\ \E r \in 1..MaxRand : handleAddCustomer(<<"A">>, r)
    \/ \E i \in 1..MaxWorksheetCustomers : handleSelectCustomer(i)
    \/ BackToList
    \/ /\ TxCount(customers) < MaxRecordTx
       /\ \E r \in 1..MaxRand : handleAddTransaction(<<"d">>, "500", r)

SpecRecords == InitWorksheet /\ [][NextRecords]_vars

C13_CashDetails ==
    [][/\ \A k \in DOMAIN dailyRecords' :
             LET cashDetails == dailyRecords'[k].cashDetails
             IN /\ \A n \in DOMAIN cashDetails :
                      /\ cashDetails[n].count > 0
                      /\ cashDetails[n].value \in Range(SHIPPING_DENOMINATIONS)
                /\ \A n, m \in DOMAIN cashDetails :
                      cashDetails[n].value = cashDetails[m].value => n = m
       /\ \A counts \in RecordCounts :
             handleSave(counts) =>
                 LET date == modalState.date[1]
                     cashDetails == dailyRecords'[date].cashDetails
                 IN /\ {cashDetails[n].value : n \in DOMAIN cashDetails}
                          = {v \in DOMAIN counts : counts[v] > 0}
                    /\ \A n \in DOMAIN cashDetails :
                          cashDetails[n].count = counts[cashDetails[n].value]
                    /\ dailyRecords'[date].payments
                          = RecordOrDefault(dailyRecords, date).payments
                    /\ \A k \in DOMAIN dailyRecords \ {date} :
                          dailyRecords'[k] = dailyRecords[k]]_vars

\* A record with the details of one denomination, after a propagation and a
\* payment.
C13_Witness ==
    \E k \in DOMAIN dailyRecords :
        /\ dailyRecords[k].cashDetails = <<[value |-> 50, count |-> 4]>>
        /\ dailyRecords[k].receivables = 50000
        /\ dailyRecords[k].payments.fawry = 12000

-----------------------------------------------------------------------------
(* The form of the treasury *)

AmountTexts == {"", "x", "1000", "300", "-200", "0"}   \* texts typed as amount
FormDescriptions == {<<>>, <<" ">>, <<"a">>}

\* Entries are submitted, one after the other or at one instant.
NextForm ==
    /\ Len(transactions) < MaxTx
    /\ \E text \in AmountTexts, d \in FormDescriptions, type \in Kinds,
          r \in 1..MaxRand, dt \in {0, 1} :
          handleSubmit(NumberInput(text), d, type, r, dt)

SpecForm == Init /\ [][NextForm]_vars

\* C14: every entry of the ledger has an amount of 0 or more.
C14_AmountsNonNegative ==
    \A i \in DOMAIN transactions : transactions[i].amount >= 0

\* C15: no two entries of the ledger have the same id.
C15_IdsUnique ==
    \A i, j \in DOMAIN transactions :
        transactions[i].id = transactions[j].id => i = j

\* C16: a submission without a description or without a number as amount
\* leaves the ledger as it is; any other appends one entry to the end of the
\* ledger and leaves the entries before it as they are.
C16_AddTransaction ==
    [][\A text \in AmountTexts, d \in FormDescriptions, type \in Kinds,
          r \in 1..MaxRand, dt \in {0, 1} :
          handleSubmit(NumberInput(text), d, type, r, dt) =>
              IF text \in {"", "x"} \/ d = <<>>
              THEN transactions' = transactions
              ELSE /\ Len(transactions') = Len(transactions) + 1
                   /\ SubSeq(transactions', 1, Len(transactions)) = transactions
                   /\ transactions'[Len(transactions')].description = d
                   /\ transactions'[Len(transactions')].type = type
                   /\ transactions'[Len(transactions')].date = now
                   /\ transactions'[Len(transactions')].amount =
                          CASE text = "1000" -> 100000
                            [] text = "300" -> 30000
                            [] text = "-200" -> 0 - 20000
                            [] text = "0" -> 0]_vars

\* An entry was appended to an entry.
C16_Witness ==
    /\ last.op = "add"
    /\ Len(transactions) = 2
    /\ transactions[1].amount = 100000
    /\ transactions[2].amount = 30000
    /\ transactions[2].id = last.id

-----------------------------------------------------------------------------
(* The transactions of the customers *)

TxAmountTexts == {"", "x", "500", "-200"}  \* texts typed as amount
TxDescriptionInputs == {<<>>, <<" ">>, <<"d">>}

\* The receivables modal of one year, with two customers.
NextCustomers ==
    \/ \E i \in 1..DaysPerYear : OpenModal("receivables", i)
    \/ CloseModal
    \/ /\ Len(customers) < MaxCustomers
       /\ \E r \in 1..MaxRand : handleAddCustomer(<<"A">>, r)
    \/ \E i \in 1..MaxCustomers : handleSelectCustomer(i)
    \/ BackToList
    \/ /\ TxCount(customers) < MaxCustomerTx
       /\ \E text \in TxAmountTexts, d \in TxDescriptionInputs, r \in 1..MaxRand :
             handleAddTransaction(d, NumberInput(text), r)

SpecCustomers == InitWorksheet /\ [][NextCustomers]_vars

-----------------------------------------------------------------------------
(* The cash count of the treasury *)

\* The denominations 200 .. 0.25, in piastres.
TREASURY_DENOMINATIONS == <<20000, 10000, 5000, 2000, 1000, 500, 100, 50, 25>>

\* parseInt on the values the count inputs of the model hold.
parseInt(s) ==
    CASE s = "1" -> Some(1)
      [] s = "2" -> Some(2)
      [] OTHER -> NaN

\* Math.abs
abs(x) == IF x < 0 THEN 0 - x ELSE x

\* The button of the cash count, and onClose of its modal.
setIsCashCountOpen(b) ==
    /\ isCashCountOpen' = b
    /\ last' = Other
    /\ UNCHANGED <<off, now, transactions, pendingReads, filterText,
                   filterStartDate, filterEndDate, addedIds, treasuryCounts,
                   localStorage>>
    /\ UNCHANGED tabVars
    /\ UNCHANGED shippingVars
    /\ UNCHANGED workerVars

\* CashCountModal.handleCountChange
handleCountChange(denom, count) ==
    /\ isCashCountOpen
    /\ treasuryCounts' =
           [d \in DOMAIN treasuryCounts \cup {denom} |->
               IF d = denom THEN OrZero(parseInt(count)) ELSE treasuryCounts[d]]
    /\ last' = Other
    /\ UNCHANGED <<off, now, transactions, pendingReads, filterText,
                   filterStartDate, filterEndDate, addedIds, isCashCountOpen,
                   localStorage>>
    /\ UNCHANGED tabVars
    /\ UNCHANGED shippingVars
    /\ UNCHANGED workerVars

\* totalCash: the reduce over TREASURY_DENOMINATIONS of (counts[denom] || 0) * denom
totalCash ==
    SumSeq([i \in DOMAIN TREASURY_DENOMINATIONS |->
               LET denom == TREASURY_DENOMINATIONS[i]
               IN (IF denom \in DOMAIN treasuryCounts
                   THEN treasuryCounts[denom] ELSE 0) * denom])

\* systemBalance={currentBalance}
systemBalance ==
    Memo(transactions, filterText, filterStartDate, filterEndDate).currentBalance

\* Mutant: the difference is taken the other way round.
countDifference_reversed == systemBalance - totalCash

\* const difference = totalCash - systemBalance (of CashCountModal)
countDifference == totalCash - systemBalance

\* getStatus: the status with the amount its text shows.
getStatus ==
    IF countDifference = 0 THEN [text |-> "balanced"]
    ELSE IF countDifference < 0
         THEN [text |-> "shortage", amount |-> abs(countDifference)]
         ELSE [text |-> "surplus", amount |-> countDifference]

CountTexts == {"", "1", "2"}               \* texts typed as a count
CountedDenominations == {20000, 5000, 25}  \* the denominations counted

\* Entries are added, the table is filtered and the drawer is counted.
NextCashCount ==
    \/ /\ ~isCashCountOpen
       /\ Len(transactions) < MaxTx
       /\ \E a \in {"1000", "300", "150"}, type \in Kinds, r \in 1..MaxRand :
             handleSubmit(a, <<"a">>, type, r, 1)
    \/ /\ ~isCashCountOpen
       /\ \E text \in {<<>>, <<"B">>} : setFilterText(text)
    \/ \E b \in BOOLEAN : b # isCashCountOpen /\ setIsCashCountOpen(b)
    \/ \E denom \in CountedDenominations, count \in CountTexts :
          handleCountChange(denom, count)

SpecCashCount == InitTreasury /\ [][NextCashCount]_vars

\* C18: the total of the count is the sum of value x count over the
\* denominations, one without a count counting 0; the variance is the total
\* minus the balance of the whole ledger, income minus expense; the status is
\* balanced for a variance of 0, a shortage of its magnitude for one below 0
\* and a surplus for one above 0.
C18_CashCount ==
    LET count(d) == IF d \in DOMAIN treasuryCounts THEN treasuryCounts[d] ELSE 0
        total == 20000 * count(20000) + 10000 * count(10000) + 5000 * count(5000)
                   + 2000 * count(2000) + 1000 * count(1000) + 500 * count(500)
                   + 100 * count(100) + 50 * count(50) + 25 * count(25)
        of(kind) == {i \in DOMAIN transactions : transactions[i].type = kind}
        amount == [i \in DOMAIN transactions |-> transactions[i].amount]
        balance == SumOver(of(INCOME), amount) - SumOver(of(EXPENSE), amount)
        variance == total - balance
    IN /\ totalCash = total
       /\ systemBalance = balance
       /\ countDifference = variance
       /\ variance = 0 <=> getStatus = [text |-> "balanced"]
       /\ variance < 0 <=>
             getStatus = [text |-> "shortage", amount |-> 0 - variance]
       /\ variance > 0 <=> getStatus = [text |-> "surplus", amount |-> variance]

\* Two notes of 200 and one of 50 against a balance of 450.
C18_Witness ==
    /\ isCashCountOpen
    /\ DOMAIN treasuryCounts = {20000, 5000}
    /\ treasuryCounts[20000] = 2
    /\ treasuryCounts[5000] = 1
    /\ systemBalance = 45000
    /\ totalCash = 45000
    /\ countDifference = 0
    /\ getStatus = [text |-> "balanced"]

-----------------------------------------------------------------------------
(* The filter of the ledger *)

\* C19: the entries shown are, most recent first, the entries of the ledger
\* whose description contains the text, letter case apart, and whose timestamp
\* lies between the start of the day of the start date and the end of the day
\* of the end date, where one is set; each carries its balance in the whole
\* ledger.
C19_FilterView ==
    LET shown == Memo(transactions, filterText, filterStartDate,
                      filterEndDate).filteredTransactions
        all == Memo(transactions, <<>>, NULL, NULL).filteredTransactions
        lower(c) == IF c = "A" THEN "a" ELSE IF c = "B" THEN "b" ELSE c
        contains(s, part) ==
            \E i \in 0..Len(s) - Len(part) :
                \A k \in 1..Len(part) : lower(s[i + k]) = lower(part[k])
        within(t) ==
            /\ filterStartDate # NULL =>
                  t.date >= LocalMidnight(filterStartDate[1])
            /\ filterEndDate # NULL =>
                  t.date < LocalMidnight(filterEndDate[1] + 1)
    IN shown = SelectSeq(all, LAMBDA t : contains(t.description, filterText)
                                           /\ within(t))

-----------------------------------------------------------------------------
(* Two tabs on one store *)

\* usePersistentState keeps, under its key, JSON.stringify of the state: the
\* stored text is modelled by the value it denotes, the entries being records
\* of strings and finite numbers, which JSON.parse gives back as they were.
getItem == localStorage

\* A second tab is opened and gets the focus: its state starts as the stored
\* value, and the effect of its first render stores that state.
OpenSecondTab ==
    /\ background = NULL
    /\ background' = Some(transactions)
    /\ transactions' = getItem
    /\ localStorage' = transactions'
    /\ focus' = "B"
    /\ last' = Other
    /\ UNCHANGED <<off, now, pendingReads, filterText, filterStartDate,
                   filterEndDate, addedIds>>
    /\ UNCHANGED cashCountVars
    /\ UNCHANGED shippingVars
    /\ UNCHANGED workerVars

\* The user turns to the other tab; nothing is read or stored.
SwitchTab ==
    /\ background # NULL
    /\ background' = Some(transactions)
    /\ transactions' = background[1]
    /\ focus' = IF focus = "A" THEN "B" ELSE "A"
    /\ last' = Other
    /\ UNCHANGED <<off, now, pendingReads, filterText, filterStartDate,
                   filterEndDate, addedIds, localStorage>>
    /\ UNCHANGED cashCountVars
    /\ UNCHANGED shippingVars
    /\ UNCHANGED workerVars

NextTabs ==
    \/ /\ Len(transactions) < MaxTx
       /\ \E a \in AmountInputs, type \in Kinds, r \in 1..MaxRand :
             handleSubmit(a, <<"a">>, type, r, 1)
    \/ OpenSecondTab
    \/ SwitchTab

SpecTabs == InitTreasury /\ [][NextTabs]_vars

\* C20: a tab that adds an entry stores its own collection in place of the
\* stored one: what the other tab had stored since this tab read the store is
\* no longer there.
C20_LastWriteWins ==
    [][(last'.op = "add" /\ transactions' # transactions /\ focus' = focus) =>
          /\ localStorage' = transactions'
          /\ \A i \in DOMAIN localStorage :
                (\A j \in DOMAIN transactions :
                    transactions[j].id # localStorage[i].id)
                  => \A k \in DOMAIN localStorage' :
                        localStorage'[k].id # localStorage[i].id]_vars

\* Tab A added an entry after tab B was opened, then tab B added one: the
\* stored value is tab B's collection, without tab A's entry.
C20_Witness ==
    /\ focus = "B"
    /\ background # NULL
    /\ last.op = "add"
    /\ localStorage = transactions
    /\ Len(transactions) = 1
    /\ Len(background[1]) = 1
    /\ background[1][1].id \in addedIds
    /\ background[1][1].id # transactions[1].id

-----------------------------------------------------------------------------
(* The service worker (sw.js) *)

MaxVersion == 2         \* versions of a resource the server gets to hold

CACHE_NAME == "shaban-treasury-cache-v1"

\* Two of the URLs of the list: one of the application's origin, one of
\* another origin.
URLS_TO_CACHE == <<"/", "https://cdn.tailwindcss.com">>

\* The URLs requested.
Urls == Range(URLS_TO_CACHE)

crossOrigin(url) == url = "https://cdn.tailwindcss.com"

\* A request is [method, url, mode]; the pages issue these: a page asks for
\* a resource of another origin without CORS (script and style elements).
Requests ==
    {[method |-> m, url |-> u,
      mode |-> IF crossOrigin(u) THEN "no-cors" ELSE "cors"] :
        m \in {"GET", "POST"}, u \in Urls}

\* The response of the network to a request, the server holding
\* [status, body] for its URL: a response of another origin to a no-cors
\* request is opaque, and shows status 0.
networkResponse(request) ==
    LET held == server[request.url]
    IN IF crossOrigin(request.url)
       THEN IF request.mode = "no-cors"
            THEN [status |-> 0, type |-> "opaque", body |-> held.body]
            ELSE [status |-> held.status, type |-> "cors", body |-> held.body]
       ELSE [status |-> held.status, type |-> "basic", body |-> held.body]

\* fetch(request): the response, or nothing when the network is unavailable.
fetch(request) == IF online THEN Some(networkResponse(request)) ELSE NULL

\* caches is the sequence of the caches in the order of their creation, each
\* [name, entries], entries being a function from URLs to responses.
keys(storage) == [i \in DOMAIN storage |-> storage[i].name]

\* caches.open(name): the storage with a cache of that name.
open(storage, name) ==
    IF name \in Range(keys(storage)) THEN storage
    ELSE Append(storage, [name |-> name, entries |-> <<>>])

\* cache.put(request, response) on the cache of that name.
put(storage, name, url, response) ==
    [i \in DOMAIN storage |->
        IF storage[i].name = name
        THEN [storage[i] EXCEPT !.entries =
                 [u \in DOMAIN storage[i].entries \cup {url} |->
                     IF u = url THEN response ELSE storage[i].entries[u]]]
        ELSE storage[i]]

\* caches.match(request): the response of the first cache that has one for
\* the URL of a GET request.
match(storage, request) ==
    LET hits == SelectSeq(storage, LAMBDA c : request.url \in DOMAIN c.entries)
    IN IF request.method = "GET" /\ hits # <<>>
       THEN Some(Head(hits).entries[request.url]) ELSE NULL

\* What the cache of the current version holds for a URL.
cached(url) ==
    LET own == SelectSeq(caches, LAMBDA c : c.name = CACHE_NAME)
    IN IF own # <<>> /\ url \in DOMAIN Head(own).entries
       THEN Some(Head(own).entries[url]) ELSE NULL

\* The 'install' listener: the cache is opened and every URL of the list is
\* added; cache.add fetches the URL (mode cors) and stores a response whose
\* status is ok, and a failure is caught.  reached is the set of URLs whose
\* fetch got an answer.
RECURSIVE addAll(_, _, _)
addAll(storage, urls, reached) ==
    IF urls = <<>> THEN storage
    ELSE LET url == Head(urls)
             response == networkResponse([method |-> "GET", url |-> url,
                                          mode |-> "cors"])
         IN addAll(IF url \in reached /\ response.status = 200
                   THEN put(storage, CACHE_NAME, url, response)
                   ELSE storage,
                   Tail(urls), reached)

install(reached) ==
    /\ workerState = "parsed"
    /\ online \/ reached = {}
    /\ caches' = addAll(open(caches, CACHE_NAME), URLS_TO_CACHE, reached)
    /\ workerState' = "installed"
    /\ last' = Other
    /\ UNCHANGED <<pendingPuts, online, server, off, now>>
    /\ UNCHANGED treasuryVars
    /\ UNCHANGED shippingVars

\* Mutant: the caches of the other names are kept.
activate_keepAll ==
    /\ workerState = "installed"
    /\ caches' = caches
    /\ workerState' = "activated"
    /\ last' = [op |-> "activate", before |-> keys(caches)]
    /\ UNCHANGED <<pendingPuts, online, server, off, now>>
    /\ UNCHANGED treasuryVars
    /\ UNCHANGED shippingVars

\* The 'activate' listener: every cache whose name is not on the whitelist is
\* deleted.
activate ==
    LET cacheWhitelist == {CACHE_NAME}
    IN /\ workerState = "installed"
       /\ caches' = SelectSeq(caches, LAMBDA c : c.name \in cacheWhitelist)
       /\ workerState' = "activated"
       /\ last' = [op |-> "activate", before |-> keys(caches)]
       /\ UNCHANGED <<pendingPuts, online, server, off, now>>
       /\ UNCHANGED treasuryVars
       /\ UNCHANGED shippingVars

\* The 'fetch' listener, up to the response the page gets.  A request that
\* is not a GET is left to the browser.  The history keeps the request,
\* whether the worker answered it, the response, and what the network
\* answers at that moment.
onfetch(request) ==
    LET response == match(caches, request)
        fromNetwork == fetch(request)
        toCache == /\ fromNetwork # NULL
                   /\ \/ fromNetwork[1].status = 200
                      \/ fromNetwork[1].type = "opaque"
    IN /\ workerState = "activated"
       /\ IF request.method # "GET"
          THEN /\ last' = [op |-> "fetch", request |-> request,
                           intercepted |-> FALSE, response |-> fromNetwork,
                           network |-> fromNetwork]
               /\ UNCHANGED pendingPuts
          ELSE IF response # NULL
          THEN /\ last' = [op |-> "fetch", request |-> request,
                           intercepted |-> TRUE, response |-> response,
                           network |-> fromNetwork]
               /\ UNCHANGED pendingPuts
          ELSE /\ last' = [op |-> "fetch", request |-> request,
                           intercepted |-> TRUE, response |-> fromNetwork,
                           network |-> fromNetwork]
               /\ pendingPuts' =
                      IF toCache
                      THEN pendingPuts \cup {[url |-> request.url,
                                              response |-> fromNetwork[1]]}
                      ELSE pendingPuts
       /\ UNCHANGED <<caches, workerState, online, server, off, now>>
       /\ UNCHANGED treasuryVars
       /\ UNCHANGED shippingVars

\* caches.open(CACHE_NAME).then(cache => cache.put(event.request, responseToCache))
cachePut(p) ==
    /\ p \in pendingPuts
    /\ pendingPuts' = pendingPuts \ {p}
    /\ caches' = put(open(caches, CACHE_NAME), CACHE_NAME, p.url, p.response)
    /\ last' = Other
    /\ UNCHANGED <<workerState, online, server, off, now>>
    /\ UNCHANGED treasuryVars
    /\ UNCHANGED shippingVars

\* The network comes and goes.
setOnline(b) ==
    /\ online' = b
    /\ last' = Other
    /\ UNCHANGED <<caches, workerState, pendingPuts, server, off, now>>
    /\ UNCHANGED treasuryVars
    /\ UNCHANGED shippingVars

\* A new version of a resource is deployed, or the resource is removed.
deploy(url, status) ==
    /\ server[url].body < MaxVersion
    /\ server' = [server EXCEPT ![url] = [status |-> status, body |-> @.body + 1]]
    /\ last' = Other
    /\ UNCHANGED <<caches, workerState, pendingPuts, online, off, now>>
    /\ UNCHANGED treasuryVars
    /\ UNCHANGED shippingVars

\* A cache left by an earlier run holds the first version of '/'.
PreExisting ==
    LET left(name) == [name |-> name,
                       entries |-> [u \in {"/"} |->
                                       [status |-> 200, type |-> "basic",
                                        body |-> 0]]]
    IN {<<>>, <<left(CACHE_NAME)>>,
        <<left("shaban-treasury-cache-v0"), left("other-cache")>>,
        <<left(CACHE_NAME), left("other-cache"),
          left("shaban-treasury-cache-v0")>>}

InitWorker ==
    /\ off = 0
    /\ now = 12
    /\ transactions = <<>>
    /\ pendingReads = {}
    /\ filterText = <<>>
    /\ filterStartDate = NULL
    /\ filterEndDate = NULL
    /\ dailyRecords = <<>>
    /\ customers = <<>>
    /\ modalState = ModalClosed
    /\ view = "list"
    /\ selectedCustomer = NULL
    /\ last = [op |-> "init"]
    /\ addedIds = {}
    /\ isCashCountOpen = FALSE
    /\ treasuryCounts = <<>>
    /\ localStorage = <<>>
    /\ background = NULL
    /\ focus = "A"
    /\ caches \in PreExisting
    /\ workerState = "parsed"
    /\ pendingPuts = {}
    /\ online = TRUE
    /\ server = [u \in Urls |-> [status |-> 200, body |-> 1]]

PossiblePuts ==
    [url : Urls,
     response : [status : {0, 200}, type : {"basic", "cors", "opaque"},
                 body : 1..MaxVersion]]

NextWorker ==
    \/ \E reached \in SUBSET Range(URLS_TO_CACHE) : install(reached)
    \/ activate
    \/ \E request \in Requests : onfetch(request)
    \/ \E p \in PossiblePuts : cachePut(p)
    \/ \E b \in BOOLEAN : b # online /\ setOnline(b)
    \/ \E url \in Urls, status \in {200, 404} : deploy(url, status)

SpecWorker == InitWorker /\ [][NextWorker]_vars

\* The handlers of the worker run to their end.
SpecWorkerFair ==
    /\ SpecWorker
    /\ WF_vars(\E reached \in SUBSET Range(URLS_TO_CACHE) : install(reached))
    /\ WF_vars(activate)
    /\ WF_vars(\E p \in PossiblePuts : cachePut(p))

\* The responses the fetch handler stores: status 200, or opaque.
Cacheable ==
    {r \in [status : {0, 200}, type : {"basic", "cors", "opaque"},
            body : 1..MaxVersion] :
        r.status = 200 \/ r.type = "opaque"}

\* C21: a GET request is answered from the cache when the network is
\* unavailable and a response for it is cached; a request that is no GET is
\* not answered by the worker; and after a GET request for which the network
\* has a response of status 200 or an opaque one, the cache of the current
\* version comes to hold that response for the URL.
C21_OfflineCache ==
    /\ [](last.op = "fetch" /\ last.request.method = "GET"
             /\ last.network = NULL /\ match(caches, last.request) # NULL
            => last.response = match(caches, last.request))
    /\ [](last.op = "fetch" /\ last.request.method # "GET"
            => ~last.intercepted)
    /\ \A url \in Urls, r \in Cacheable :
          (last.op = "fetch" /\ last.request.method = "GET"
             /\ last.request.url = url /\ last.network = Some(r))
            ~> (cached(url) = Some(r))

\* C22: once the activate handler is done the only cache there can be is the
\* one of the current version, and the handler does not delete that one.
C22_OnlyCurrentCache ==
    /\ workerState = "activated" => Range(keys(caches)) \subseteq {CACHE_NAME}
    /\ last.op = "activate" =>
          (CACHE_NAME \in Range(last.before) => keys(caches) = <<CACHE_NAME>>)

\* The handler ran with the caches of two other names and the current one.
C22_Witness ==
    /\ last.op = "activate"
    /\ Len(last.before) = 3
    /\ keys(caches) = <<CACHE_NAME>>
    /\ cached("/") # NULL

-----------------------------------------------------------------------------
(* One calendar year of the shipping page, in every time zone *)

YearFields == {"fawry", "cash"}            \* the payment cells that are edited
YearCounts == {c \in CashCounts : DOMAIN c = {20000} /\ c[20000] > 0}
YearAmounts == {"", "500", "-200"}         \* the amount field (number input)

NextYear ==
    \/ \E type \in {"cash", "receivables"}, i \in 1..DaysPerYear :
          OpenModal(type, i)
    \/ CloseModal
    \/ \E i \in 1..DaysPerYear, f \in YearFields :
          /\ NonZeroCells(dailyRecords) < MaxPaymentCells
          /\ handlePaymentChange(RowKeys[i], f, "120")
    \/ /\ CashDays(dailyRecords) < MaxCashDays
       /\ \E counts \in YearCounts : handleSave(counts)
    \/ /\ Len(customers) < MaxCustomers
       /\ \E n \in {<<" ">>, <<"A">>} : handleAddCustomer(n, 1)
    \/ \E i \in 1..MaxCustomers : handleSelectCustomer(i)
    \/ BackToList
    \/ /\ TxCount(customers) < MaxCustomerTx
       /\ \E a \in YearAmounts : handleAddTransaction(<<>>, a, 1)

SpecYear == Init /\ [][NextYear]_vars

\* The record shown in the last row of the table of the year.
LastDayRecord == RecordOrDefault(dailyRecords, RowKeys[Len(RowKeys)])

\* C23: in every state reached within one calendar year from the empty store
\* by adding customers and customer transactions (the modal opened on any
\* row) and by editing payment cells and cash details, the receivables of the
\* last day of the year is the total receivables, the sum of all the amounts
\* of all the customers.
C23_LastDayIsTotal ==
    /\ getFullYear(now) = 0
    /\ Len(RowKeys) = DaysPerYear
    /\ LastDayRecord.receivables = totalReceivables(customers)
    /\ LastDayRecord.receivables = AllAmounts(customers)

\* Two customers owe 500 and -200, the second amount entered on the last row,
\* after a payment was typed into the last row.
C23_Witness ==
    /\ last.op = "custTx"
    /\ last.date = RowKeys[Len(RowKeys)]
    /\ Len(customers) = 2
    /\ \A i \in DOMAIN customers : Len(customers[i].transactions) = 1
    /\ totalReceivables(customers) = 30000
    /\ LastDayRecord.payments # DEFAULT_SHIPPING_RECORD.payments
    /\ LastDayRecord.receivables = 30000

\* C24: a customer transaction changes only the receivables: for every date
\* the 7 payment channels and the cash details of the record are the same
\* before and after it, a record that was not stored being stored with all
\* channels 0 and no cash details; and adding a customer changes no record.
C24_PropagationFrame ==
    [][/\ \A a \in YearAmounts :
            handleAddTransaction(<<>>, a, 1) =>
                /\ DOMAIN dailyRecords \subseteq DOMAIN dailyRecords'
                /\ \A k \in DOMAIN dailyRecords' :
                      LET before == RecordOrDefault(dailyRecords, k)
                          after == dailyRecords'[k]
                      IN /\ \A f \in Range(PAYMENT_FIELDS) :
                               after.payments[f] = before.payments[f]
                         /\ after.cashDetails = before.cashDetails
                         /\ k \notin DOMAIN dailyRecords =>
                               /\ \A f \in Range(PAYMENT_FIELDS) :
                                     after.payments[f] = 0
                               /\ after.cashDetails = <<>>
       /\ \A n \in {<<" ">>, <<"A">>} :
            handleAddCustomer(n, 1) => dailyRecords' = dailyRecords]_vars

\* A transaction was propagated over a record that holds a payment and cash
\* details, and over a day that had no record.
C24_Witness ==
    /\ last.op = "custTx"
    /\ Len(customers) = 2
    /\ \E k \in DOMAIN dailyRecords :
          /\ k >= last.date
          /\ dailyRecords[k].payments # DEFAULT_SHIPPING_RECORD.payments
          /\ dailyRecords[k].cashDetails # <<>>
          /\ dailyRecords[k].receivables = last.total
    /\ \E k \in DOMAIN dailyRecords :
          /\ dailyRecords[k].payments = DEFAULT_SHIPPING_RECORD.payments
          /\ dailyRecords[k].cashDetails = <<>>
          /\ dailyRecords[k].receivables = last.total
          /\ last.total # 0

====
